---- MODULE Spec2Model ----
(***************************************************************************)
(* K-Means of src/kmeans.ipynb: initialize_centroids, compute_distances,   *)
(* assign_clusters, update_centroids and the driver kmeans.                *)
(*                                                                         *)
(* Numbers.  A floating-point value is kept as the exact rational it       *)
(* denotes, a pair <<numerator, denominator>> in lowest terms with a       *)
(* positive denominator; not-a-number is the pair <<0, 0>>, the quotient   *)
(* 0/0 that produces it.  A distance is kept as the square root of a       *)
(* rational, [radicand |-> r], and distances are ordered through their     *)
(* radicands (the root is strictly increasing).  Rows of arrays (embeddings, centroids, assignments) are     *)
(* indexed from 0 as in the notebook; the components of one vector are a   *)
(* sequence.                                                               *)
(***************************************************************************)
EXTENDS Integers, Sequences, FiniteSets, TLC

\* Bounds of the model.
MaxN == 2
MaxK == 2
MaxIters == 2
\* Vector lengths and component values the datasets are drawn from.
Dims == {1, 2}
Components == {0, 1}

VARIABLES
    call,           \* the function of the notebook that is called
    pc,             \* where the call stands
    K,              \* the notebook's module-level K (cell 3)
    embeddings,     \* argument: the dataset, rows 0..N-1
    k,              \* argument k of initialize_centroids/update_centroids/kmeans
    num_iters,      \* argument num_iters of kmeans
    indices,        \* local of initialize_centroids: the rows drawn
    centroids,      \* local of kmeans / argument of assign_clusters / a result
    assignments,    \* local of kmeans / argument of update_centroids / a result
    round,          \* rounds of the for loop completed
    error,          \* the exception that ended the call, "" if none
    result,         \* what kmeans returned
    prev_centroids, \* history: centroids as they were before the last update
    initCalls,      \* history: calls of initialize_centroids made by kmeans
    assignCalls,    \* history: calls of assign_clusters made by kmeans
    updateCalls     \* history: calls of update_centroids made by kmeans

vars == <<call, pc, K, embeddings, k, num_iters, indices, centroids, assignments,
          round, error, result, prev_centroids, initCalls, assignCalls,
          updateCalls>>

\* A Python name that is not bound (yet).
Unbound == [x \in {-1} |-> -1]

-----------------------------------------------------------------------------
\* Floating-point values.

NaN == <<0, 0>>
IsNaN(x) == x = NaN
Num(i) == <<i, 1>>
Abs(n) == IF n < 0 THEN -n ELSE n

RECURSIVE GCD(_, _)
GCD(a, b) == IF b = 0 THEN a ELSE GCD(b, a % b)

\* n/d in lowest terms, d > 0.
Norm(n, d) == LET g == GCD(Abs(n), d) IN <<n \div g, d \div g>>

Add(a, b) == IF IsNaN(a) \/ IsNaN(b) THEN NaN
             ELSE Norm(a[1] * b[2] + b[1] * a[2], a[2] * b[2])
Sub(a, b) == IF IsNaN(a) \/ IsNaN(b) THEN NaN
             ELSE Norm(a[1] * b[2] - b[1] * a[2], a[2] * b[2])
Mul(a, b) == IF IsNaN(a) \/ IsNaN(b) THEN NaN
             ELSE Norm(a[1] * b[1], a[2] * b[2])
\* a / n for an integer count n >= 0.  The only division by a zero count
\* in the notebook has the sum of an all-zero array as numerator: 0/0.
DivCount(a, n) == IF IsNaN(a) \/ n = 0 THEN NaN ELSE Norm(a[1], a[2] * n)

\* IEEE comparisons: every comparison with a NaN is false.
Lt(a, b) == ~IsNaN(a) /\ ~IsNaN(b) /\ a[1] * b[2] < b[1] * a[2]
Eq(a, b) == ~IsNaN(a) /\ ~IsNaN(b) /\ a = b

\* jnp.sum of a sequence of values.
RECURSIVE SumSeq(_)
SumSeq(s) == IF s = << >> THEN Num(0) ELSE Add(Head(s), SumSeq(Tail(s)))

\* jnp.sum(rows, axis=0)[d] for rows indexed 0..n-1.
RECURSIVE SumRows(_, _, _)
SumRows(rows, d, n) ==
    IF n = 0 THEN Num(0) ELSE Add(SumRows(rows, d, n - 1), rows[n - 1][d])

\* jnp.sqrt, kept exact: the root of r.  sqrt(NaN) is NaN.
sqrt(r) == [radicand |-> r]
DistIsNaN(x) == IsNaN(x.radicand)
DistLt(x, y) == Lt(x.radicand, y.radicand)
DistEq(x, y) == Eq(x.radicand, y.radicand)
DistLe(x, y) == DistLt(x, y) \/ DistEq(x, y)

-----------------------------------------------------------------------------
\* The functions of the notebook.

NumRows(a) == Cardinality(DOMAIN a)
Rows(n) == 0 .. (n - 1)

\* Mutant of choice: the draw made with replacement.
choice_with_replacement(n) == [Rows(K) -> Rows(n)]

\* random.choice(key, arange(n), shape=(K,), replace=False): the draws a key
\* can give, K pairwise distinct rows of 0..n-1 (none when K > n).
choice(n) == {f \in [Rows(K) -> Rows(n)] :
                 \A i, j \in Rows(K) : i # j => f[i] # f[j]}

\* jnp.take(emb, idx, axis=0)
take(emb, idx) == [i \in DOMAIN idx |-> emb[idx[i]]]

\* compute_distances(embedding, centroids): one distance per centroid.
compute_distances(embedding, cents) ==
    [i \in DOMAIN cents |->
        sqrt(SumSeq([d \in DOMAIN embedding |->
                        LET diff == Sub(embedding[d], cents[i][d])
                        IN  Mul(diff, diff)]))]

\* Mutant of argmin_scan: a later value also replaces an equal one.
RECURSIVE argmin_scan_last(_, _, _)
argmin_scan_last(distances, i, best) ==
    IF i \notin DOMAIN distances THEN best
    ELSE argmin_scan_last(distances, i + 1,
                          IF DistLe(distances[i], distances[best]) THEN i
                          ELSE best)

\* The left-to-right scan of jnp.argmin over values none of which is NaN:
\* a later value replaces the best so far only when strictly smaller.
RECURSIVE argmin_scan(_, _, _)
argmin_scan(distances, i, best) ==
    IF i \notin DOMAIN distances THEN best
    ELSE argmin_scan(distances, i + 1,
                     IF DistLt(distances[i], distances[best]) THEN i ELSE best)

\* Mutant of argmin: positions counted from 1.
argmin_one_based(distances) ==
    LET nans == {i \in DOMAIN distances : DistIsNaN(distances[i])}
    IN  IF nans # {} THEN {i + 1 : i \in nans}
        ELSE {argmin_scan(distances, 1, 0) + 1}

\* jnp.argmin(distances) over a non-empty axis: the indices it can return.
\* A NaN beats every number; which of several NaNs wins depends on the
\* order of the reduction, so each of them is a possible result.
argmin(distances) ==
    LET nans == {i \in DOMAIN distances : DistIsNaN(distances[i])}
    IN  IF nans # {} THEN nans ELSE {argmin_scan(distances, 1, 0)}

\* assign_clusters(embeddings, centroids): the assignment vectors it can
\* return (centroids non-empty).
assign_clusters(emb, cents) ==
    LET distances == [n \in DOMAIN emb |-> compute_distances(emb[n], cents)]
        picks == [n \in DOMAIN emb |-> argmin(distances[n])]
    IN  {a \in [DOMAIN emb -> UNION {picks[n] : n \in DOMAIN emb}] :
            \A n \in DOMAIN emb : a[n] \in picks[n]}

\* Mutant of update_centroid: the count is kept from being zero.
update_centroid_guarded(emb, asg, i) ==
    LET mask == [n \in DOMAIN emb |-> asg[n] = i]
        masked_embeddings ==
            [n \in DOMAIN emb |->
                IF mask[n] THEN emb[n] ELSE [d \in DOMAIN emb[n] |-> Num(0)]]
        count == Cardinality({n \in DOMAIN emb : mask[n]})
    IN  [d \in DOMAIN emb[0] |->
            DivCount(SumRows(masked_embeddings, d, NumRows(emb)),
                     IF count = 0 THEN 1 ELSE count)]

\* update_centroid(i) inside update_centroids.
update_centroid(emb, asg, i) ==
    LET mask == [n \in DOMAIN emb |-> asg[n] = i]
        masked_embeddings ==
            [n \in DOMAIN emb |->
                IF mask[n] THEN emb[n] ELSE [d \in DOMAIN emb[n] |-> Num(0)]]
        count == Cardinality({n \in DOMAIN emb : mask[n]})
    IN  [d \in DOMAIN emb[0] |->
            DivCount(SumRows(masked_embeddings, d, NumRows(emb)), count)]

\* update_centroids(embeddings, assignments, k): maps over arange(K), the
\* module-level K; the argument kArg is not read.
update_centroids(emb, asg, kArg) ==
    [i \in Rows(K) |-> update_centroid(emb, asg, i)]

-----------------------------------------------------------------------------
\* Inputs.

Vectors(D) == [1 .. D -> {Num(v) : v \in Components}]
NaNVector(D) == [d \in 1 .. D |-> NaN]
Datasets(D) == UNION {[Rows(n) -> Vectors(D)] : n \in 1 .. MaxN}


InitCommon ==
    /\ pc = "start"
    /\ indices = Unbound
    /\ round = 0
    /\ error = ""
    /\ result = Unbound
    /\ prev_centroids = Unbound
    /\ initCalls = 0
    /\ assignCalls = 0
    /\ updateCalls = 0

\* A call kmeans(embeddings, k, num_iters, seed) is pending.
InitKmeans ==
    /\ call = "kmeans"
    /\ K \in 0 .. MaxK
    /\ \E D \in Dims : embeddings \in Datasets(D)
    /\ k \in 0 .. MaxK + 1
    /\ num_iters \in 0 .. MaxIters
    /\ centroids = Unbound
    /\ assignments = Unbound
    /\ InitCommon

\* A call initialize_centroids(embeddings, k, key) is pending.
InitInitialize ==
    /\ call = "initialize_centroids"
    /\ K \in 0 .. MaxK
    /\ \E D \in Dims : embeddings \in Datasets(D)
    /\ k \in 0 .. MaxK + 1
    /\ num_iters = 0
    /\ centroids = Unbound
    /\ assignments = Unbound
    /\ InitCommon

\* A call assign_clusters(embeddings, centroids) is pending; a centroid is a
\* vector of numbers or, as an empty cluster leaves it, of NaNs.
InitAssign ==
    /\ call = "assign_clusters"
    /\ K \in 0 .. MaxK
    /\ \E D \in Dims :
          /\ embeddings \in Datasets(D)
          /\ centroids \in [Rows(K) -> Vectors(D) \cup {NaNVector(D)}]
    /\ k = K
    /\ num_iters = 0
    /\ assignments = Unbound
    /\ InitCommon

\* A call update_centroids(embeddings, assignments, k) is pending.
InitUpdate ==
    /\ call = "update_centroids"
    /\ K \in 1 .. MaxK
    /\ \E D \in Dims : embeddings \in Datasets(D)
    /\ assignments \in [DOMAIN embeddings -> 0 .. MaxK]
    /\ k \in 0 .. MaxK + 1
    /\ num_iters = 0
    /\ centroids = Unbound
    /\ InitCommon

Init == InitKmeans \/ InitInitialize \/ InitAssign \/ InitUpdate

-----------------------------------------------------------------------------
\* The body of initialize_centroids, lines 60-61.  random.choice raises
\* ValueError when asked for more rows than there are.
initialize_centroids_body ==
    IF K > NumRows(embeddings)
    THEN /\ pc' = "raised"
         /\ error' = "ValueError"
         /\ UNCHANGED <<indices, centroids>>
    ELSE /\ \E idx \in choice(NumRows(embeddings)) :
               /\ indices' = idx
               /\ centroids' = take(embeddings, idx)
         /\ pc' = IF call = "kmeans" THEN "for" ELSE "returned"
         /\ error' = error

\* The body of assign_clusters, lines 105-106.  jnp.argmin raises
\* ValueError on an empty axis (no centroids).
assign_clusters_body ==
    IF NumRows(centroids) = 0
    THEN /\ pc' = "raised"
         /\ error' = "ValueError"
         /\ UNCHANGED assignments
    ELSE /\ assignments' \in assign_clusters(embeddings, centroids)
         /\ pc' = IF call = "kmeans" THEN "update" ELSE "returned"
         /\ error' = error

\* kmeans, lines 157-158: key = PRNGKey(seed); initialize_centroids.
kmeans_initialize ==
    /\ call = "kmeans"
    /\ pc = "start"
    /\ initCalls' = initCalls + 1
    /\ initialize_centroids_body
    /\ UNCHANGED <<call, K, embeddings, k, num_iters, assignments, round,
                   result, prev_centroids, assignCalls, updateCalls>>

\* kmeans, lines 160-161: the loop goes on; assign_clusters.
kmeans_assign ==
    /\ call = "kmeans"
    /\ pc = "for"
    /\ round < num_iters
    /\ assignCalls' = assignCalls + 1
    /\ assign_clusters_body
    /\ UNCHANGED <<call, K, embeddings, k, num_iters, indices, centroids,
                   round, result, prev_centroids, initCalls, updateCalls>>

\* Mutant of kmeans_update: the loop is left once the centroids are stable.
kmeans_update_early_stop ==
    /\ call = "kmeans"
    /\ pc = "update"
    /\ centroids' = update_centroids(embeddings, assignments, k)
    /\ prev_centroids' = centroids
    /\ updateCalls' = updateCalls + 1
    /\ round' = IF centroids' = centroids THEN num_iters ELSE round + 1
    /\ pc' = "for"
    /\ UNCHANGED <<call, K, embeddings, k, num_iters, indices, assignments,
                   error, result, initCalls, assignCalls>>

\* kmeans, line 162: update_centroids; the round is complete.
kmeans_update ==
    /\ call = "kmeans"
    /\ pc = "update"
    /\ centroids' = update_centroids(embeddings, assignments, k)
    /\ prev_centroids' = centroids
    /\ updateCalls' = updateCalls + 1
    /\ round' = round + 1
    /\ pc' = "for"
    /\ UNCHANGED <<call, K, embeddings, k, num_iters, indices, assignments,
                   error, result, initCalls, assignCalls>>

\* Mutant of kmeans_return: a last assignment pass against the final
\* centroids before returning.
kmeans_return_reassigned ==
    /\ call = "kmeans"
    /\ pc = "for"
    /\ round = num_iters
    /\ IF NumRows(centroids) = 0
       THEN /\ pc' = "raised"
            /\ error' = "ValueError"
            /\ UNCHANGED <<result, assignments>>
       ELSE /\ pc' = "returned"
            /\ assignments' \in assign_clusters(embeddings, centroids)
            /\ result' = <<centroids, assignments'>>
            /\ error' = error
    /\ assignCalls' = assignCalls + 1
    /\ UNCHANGED <<call, K, embeddings, k, num_iters, indices, centroids,
                   round, prev_centroids, initCalls, updateCalls>>

\* Mutant of kmeans_return: the pair is returned whether or not
\* assignments was ever bound.
kmeans_return_unchecked ==
    /\ call = "kmeans"
    /\ pc = "for"
    /\ round = num_iters
    /\ pc' = "returned"
    /\ result' = <<centroids, assignments>>
    /\ UNCHANGED <<call, K, embeddings, k, num_iters, indices, centroids,
                   assignments, round, error, prev_centroids, initCalls,
                   assignCalls, updateCalls>>

\* kmeans, line 164: the loop is over; return centroids, assignments.
\* Reading the name assignments before it was bound raises
\* UnboundLocalError.
kmeans_return ==
    /\ call = "kmeans"
    /\ pc = "for"
    /\ round = num_iters
    /\ IF assignments = Unbound
       THEN /\ pc' = "raised"
            /\ error' = "UnboundLocalError"
            /\ UNCHANGED result
       ELSE /\ pc' = "returned"
            /\ result' = <<centroids, assignments>>
            /\ error' = error
    /\ UNCHANGED <<call, K, embeddings, k, num_iters, indices, centroids,
                   assignments, round, prev_centroids, initCalls, assignCalls,
                   updateCalls>>

\* A call of initialize_centroids on its own.
call_initialize_centroids ==
    /\ call = "initialize_centroids"
    /\ pc = "start"
    /\ initialize_centroids_body
    /\ UNCHANGED <<call, K, embeddings, k, num_iters, assignments, round,
                   result, prev_centroids, initCalls, assignCalls,
                   updateCalls>>

\* A call of assign_clusters on its own.
call_assign_clusters ==
    /\ call = "assign_clusters"
    /\ pc = "start"
    /\ assign_clusters_body
    /\ UNCHANGED <<call, K, embeddings, k, num_iters, indices, centroids,
                   round, result, prev_centroids, initCalls, assignCalls,
                   updateCalls>>

\* A call of update_centroids on its own.
call_update_centroids ==
    /\ call = "update_centroids"
    /\ pc = "start"
    /\ centroids' = update_centroids(embeddings, assignments, k)
    /\ pc' = "returned"
    /\ UNCHANGED <<call, K, embeddings, k, num_iters, indices, assignments,
                   round, error, result, prev_centroids, initCalls,
                   assignCalls, updateCalls>>

Next ==
    \/ kmeans_initialize
    \/ kmeans_assign
    \/ kmeans_update
    \/ kmeans_return
    \/ call_initialize_centroids
    \/ call_assign_clusters
    \/ call_update_centroids

Spec == Init /\ [][Next]_vars

-----------------------------------------------------------------------------
\* Vocabulary of the properties.

N == NumRows(embeddings)
Finished == pc = "returned" \/ pc = "raised"
ValidK == 1 <= K /\ K <= N

\* The states right after a function has been applied: its inputs and its
\* result are both in the variables.
AfterInit ==
    \/ call = "initialize_centroids" /\ pc = "returned"
    \/ call = "kmeans" /\ pc = "for" /\ round = 0
AfterAssign ==
    \/ call = "assign_clusters" /\ pc = "returned"
    \/ call = "kmeans" /\ pc = "update"
AfterUpdate ==
    \/ call = "update_centroids" /\ pc = "returned"
    \/ call = "kmeans" /\ pc = "for" /\ round >= 1

Distinct(emb) == \A i, j \in DOMAIN emb : i # j => emb[i] # emb[j]
Injective(f) == \A i, j \in DOMAIN f : i # j => f[i] # f[j]
IsNaNVector(v) == \A d \in DOMAIN v : IsNaN(v[d])
HasNaN(dists) == \E j \in DOMAIN dists : DistIsNaN(dists[j])

\* i is the lowest index among those of minimal distance.
MinimalLowest(dists, i) ==
    /\ i \in DOMAIN dists
    /\ \A j \in DOMAIN dists : DistLe(dists[i], dists[j])
    /\ \A j \in DOMAIN dists : j < i => ~DistEq(dists[j], dists[i])

\* i is what the assignment step may give for these distances.
Nearest(dists, i) ==
    IF HasNaN(dists) THEN i \in DOMAIN dists /\ DistIsNaN(dists[i])
    ELSE MinimalLowest(dists, i)

IsAssignmentOf(asg, emb, cents) ==
    /\ DOMAIN asg = DOMAIN emb
    /\ \A n \in DOMAIN emb : Nearest(compute_distances(emb[n], cents), asg[n])

Members(asg, i) == {n \in DOMAIN asg : asg[n] = i}

\* The sum of component d of the embeddings of S (components are integers).
RECURSIVE SumComponent(_, _, _)
SumComponent(emb, S, d) ==
    IF S = {} THEN 0
    ELSE LET n == CHOOSE x \in S : TRUE
         IN  emb[n][d][1] + SumComponent(emb, S \ {n}, d)

\* c is the component-wise mean of the embeddings of the non-empty set S.
IsMean(c, emb, S) ==
    /\ DOMAIN c = DOMAIN emb[0]
    /\ \A d \in DOMAIN c :
          /\ ~IsNaN(c[d])
          /\ c[d][1] * Cardinality(S) = SumComponent(emb, S, d) * c[d][2]

IsUpdateOf(cents, emb, asg) ==
    /\ DOMAIN cents = Rows(K)
    /\ \A i \in Rows(K) :
          IF Members(asg, i) = {} THEN IsNaNVector(cents[i])
          ELSE IsMean(cents[i], emb, Members(asg, i))

-----------------------------------------------------------------------------
\* The bookkeeping of a run of kmeans: one initialization, then rounds of
\* one assignment on the current centroids and one update on the
\* assignments just made.
RunInOrder ==
    call = "kmeans" =>
        /\ initCalls = (IF pc = "start" THEN 0 ELSE 1)
        /\ round <= num_iters
        /\ pc = "start" => round = 0 /\ assignCalls = 0 /\ updateCalls = 0
        /\ pc = "for" => assignCalls = round /\ updateCalls = round
        /\ pc = "update" =>
              /\ round < num_iters
              /\ assignCalls = round + 1 /\ updateCalls = round
              /\ IsAssignmentOf(assignments, embeddings, centroids)
        /\ round >= 1 /\ pc \in {"for", "returned"} =>
              /\ IsAssignmentOf(assignments, embeddings, prev_centroids)
              /\ IsUpdateOf(centroids, embeddings, assignments)

AllRoundsDone ==
    round = num_iters /\ assignCalls = num_iters /\ updateCalls = num_iters

\* The steps a run of kmeans still has to make before it ends when nothing
\* raises: every step of the run brings it down.
StepsLeft ==
    CASE pc = "start" -> 2 * num_iters + 3
      [] pc = "for" -> 2 * (num_iters - round) + 2
      [] pc = "update" -> 2 * (num_iters - round) + 1
      [] OTHER -> 0

\* A step of kmeans is possible: the statement the run stands at either
\* raises or has an outcome.
CanStep ==
    \/ pc = "start" /\ (K > N \/ choice(N) # {})
    \/ pc = "for" /\ round < num_iters
          /\ (NumRows(centroids) = 0
                \/ assign_clusters(embeddings, centroids) # {})
    \/ pc = "update"
    \/ pc = "for" /\ round = num_iters

\* C1 as stated: for every dataset, K and num_iters a run of kmeans
\* initializes once, then makes exactly num_iters rounds of one assignment
\* followed by one update, and has made all of them when it ends.
C1_original_every_K ==
    /\ RunInOrder
    /\ call = "kmeans" /\ Finished => AllRoundsDone

\* C1 amended: when the module-level K satisfies 1 <= K <= N, a run of
\* kmeans initializes once, then makes exactly num_iters rounds of one
\* assignment on the current centroids followed by one update on the
\* assignments just made, never stops earlier (also after a round that left
\* the centroids unchanged), and ends after round num_iters: a run that has
\* not ended can take a step, and every step brings StepsLeft down.
C1_fixed_rounds ==
    /\ [](/\ RunInOrder
          /\ call = "kmeans" /\ ValidK /\ Finished => AllRoundsDone
          /\ call = "kmeans" /\ ~Finished => StepsLeft > 0 /\ CanStep)
    /\ [][call = "kmeans" => StepsLeft' < StepsLeft /\ StepsLeft' >= 0]_vars

\* A round begins although the round before it left the centroids unchanged.
C1_witness ==
    /\ call = "kmeans" /\ pc = "update" /\ round >= 1
    /\ ValidK /\ prev_centroids = centroids

\* C2: the assignments kmeans returns were made against the centroids as
\* they were before the last update (the initial ones when num_iters = 1),
\* the centroids it returns are the update of exactly those assignments, and
\* no assignment pass follows the last update.
C2_assignments_lag ==
    call = "kmeans" /\ pc = "returned" =>
        /\ num_iters >= 1
        /\ result = <<centroids, assignments>>
        /\ IsAssignmentOf(result[2], embeddings, prev_centroids)
        /\ IsUpdateOf(result[1], embeddings, result[2])
        /\ num_iters = 1 => prev_centroids = take(embeddings, indices)
        /\ assignCalls = num_iters /\ updateCalls = num_iters

\* kmeans returns assignments that the returned centroids would not give.
C2_witness ==
    /\ call = "kmeans" /\ pc = "returned" /\ num_iters >= 2
    /\ ~IsAssignmentOf(result[2], embeddings, result[1])

\* C3: in a run of kmeans the assignment vector, once made, has length N
\* and every entry is an index of a centroid, in [0, K), in every state of
\* the loop, also in the rounds after a round that left a cluster empty.
C3_assignments_in_range ==
    call = "kmeans" /\ assignments # Unbound =>
        /\ ValidK
        /\ DOMAIN assignments = Rows(N)
        /\ \A n \in Rows(N) :
              assignments[n] \in Rows(K) /\ assignments[n] \in DOMAIN centroids

\* An assignment has been made against centroids one of which is the NaN
\* vector an empty cluster left.
C3_witness ==
    /\ call = "kmeans" /\ pc = "update" /\ round >= 1
    /\ \E i \in DOMAIN centroids : IsNaNVector(centroids[i])
    /\ \E i \in DOMAIN centroids : ~IsNaNVector(centroids[i])

C5_k_centroids ==
    1 <= k /\ k <= N =>
        /\ ~(call = "initialize_centroids" /\ pc = "raised")
        /\ AfterInit =>
              /\ DOMAIN centroids = Rows(k)
              /\ DOMAIN indices = Rows(k)
              /\ Injective(indices)
              /\ \A i \in Rows(k) :
                    indices[i] \in Rows(N) /\ centroids[i] = embeddings[indices[i]]

\* C6: kmeans called with a count of 0 or above N fails with an error
\* before any centroid is initialized and before any round runs.
C6_invalid_k_fails_first ==
    call = "kmeans" /\ (k = 0 \/ k > N) /\ pc # "start" =>
        /\ pc = "raised"
        /\ error # ""
        /\ centroids = Unbound
        /\ assignCalls = 0 /\ updateCalls = 0

\* C7: update_centroids(embeddings, assignments, k) returns exactly k
\* centroids, and centroid i of a cluster with members is the
\* component-wise sum of its members divided by their number.
C7_k_means ==
    AfterUpdate =>
        /\ DOMAIN centroids = Rows(k)
        /\ \A i \in Rows(k) :
              Members(assignments, i) # {} =>
                  IsMean(centroids[i], embeddings, Members(assignments, i))

\* C8: update_centroids gives a cluster without members a centroid whose
\* every component is NaN (not the previous centroid, not a data point),
\* raises no error, and gives the other clusters their means.
C8_empty_cluster_nan ==
    AfterUpdate =>
        /\ error = ""
        /\ \A i \in DOMAIN centroids :
              IF Members(assignments, i) = {}
              THEN /\ IsNaNVector(centroids[i])
                   /\ \A n \in DOMAIN embeddings : centroids[i] # embeddings[n]
              ELSE IsMean(centroids[i], embeddings, Members(assignments, i))

\* In a run of kmeans a cluster that had a numeric centroid lost all its
\* members and another kept some.
C8_witness ==
    /\ call = "kmeans" /\ pc = "for" /\ round >= 1
    /\ \E i, j \in DOMAIN centroids :
          /\ Members(assignments, i) = {}
          /\ ~IsNaNVector(prev_centroids[i])
          /\ IsNaNVector(centroids[i])
          /\ Members(assignments, j) # {}

\* C9: when K = N and the embeddings are pairwise distinct,
\* initialize_centroids succeeds with N centroids that are a permutation of
\* the embeddings, and the first assign_clusters assigns every embedding to
\* the centroid initialized from it, one-to-one.
C9_K_equals_N ==
    K = N /\ Distinct(embeddings) /\ call \in {"kmeans", "initialize_centroids"} =>
        /\ error # "ValueError"
        /\ AfterInit =>
              /\ DOMAIN centroids = Rows(N)
              /\ DOMAIN indices = Rows(N)
              /\ Injective(indices)
              /\ \A n \in Rows(N) : \E i \in Rows(N) : indices[i] = n
              /\ \A i \in Rows(N) : centroids[i] = embeddings[indices[i]]
        /\ call = "kmeans" /\ pc = "update" /\ round = 0 =>
              /\ Injective(assignments)
              /\ \A n \in Rows(N) : indices[assignments[n]] = n

\* The first assignment after an initialization that permuted N >= 2
\* distinct embeddings.
C9_witness ==
    /\ call = "kmeans" /\ pc = "update" /\ round = 0
    /\ K = N /\ N >= 2 /\ Distinct(embeddings)
    /\ \E i \in Rows(N) : indices[i] # i

====
